---- MODULE Spec2Model ----
(***************************************************************************)
(* Contact book of task_01.py: field validators, Record, AddressBook, the  *)
(* upcoming-birthday query, pickle persistence and the command loop.       *)
(*                                                                         *)
(* A Python str is a sequence of one-character strings.  A date is a       *)
(* record [year, month, day] as datetime.date stores it.  The text of a    *)
(* date is a record [sep, f]: the separator between its three numeric      *)
(* fields and the fields in the order they are written.  A call returns a  *)
(* record [exc, self, ret]: the message of the exception it raised ("" if  *)
(* none), the receiver's state when it returned or raised, and the value.  *)
(***************************************************************************)
EXTENDS Integers, Sequences, FiniteSets, TLC

VARIABLES book, disk, pc, last

vars == <<book, disk, pc, last>>

\* ------------------------------------------------------------------ bounds

MaxPhones == 2
MaxContacts == 2
TodaySpan == 8

\* ----------------------------------------------------------- input strings

\* The characters str.isdigit accepts, among those of the inputs below.
Digits == {"0", "1", "2", "3", "4", "5", "6", "7", "8", "9"}

NameA == <<"a">>
NameB == <<"b">>
NamePadded == <<" ", "a", " ">>
NameBlank == <<" ", " ">>

P1 == [i \in 1..10 |-> "1"]
P2 == [i \in 1..10 |-> "2"]
P3 == [i \in 1..10 |-> "3"]
PShort == [i \in 1..9 |-> "1"]
PAlpha == [i \in 1..10 |-> IF i = 4 THEN "x" ELSE "1"]

DateText(d, m, y) == [sep |-> ".", f |-> <<d, m, y>>]

TxtLeapDay == DateText(29, 2, 2000)
TxtNewYear == DateText(1, 1, 1990)
TxtMay25 == DateText(25, 5, 2024)
TxtMay22 == DateText(22, 5, 2024)
TxtMarch3 == DateText(3, 3, 1990)
TxtFeb31 == DateText(31, 2, 2024)
TxtIso == [sep |-> "-", f |-> <<1990, 12, 25>>]

\* ------------------------------------------------------------ the calendar

IsLeap(y) == (y % 4 = 0) /\ ((y % 100 # 0) \/ (y % 400 = 0))

DaysInMonth(y, m) ==
    IF m = 2 THEN (IF IsLeap(y) THEN 29 ELSE 28)
    ELSE IF m \in {4, 6, 9, 11} THEN 30 ELSE 31

DaysBeforeYear(y) ==
    LET p == y - 1 IN p * 365 + (p \div 4) - (p \div 100) + (p \div 400)

RECURSIVE DaysBeforeMonth(_, _)
DaysBeforeMonth(y, m) ==
    IF m = 1 THEN 0 ELSE DaysBeforeMonth(y, m - 1) + DaysInMonth(y, m - 1)

ValidDate(y, m, d) ==
    /\ y \in 1..9999
    /\ m \in 1..12
    /\ d \in 1..DaysInMonth(y, m)

MkDate(y, m, d) == [year |-> y, month |-> m, day |-> d]

toordinal(dt) ==
    DaysBeforeYear(dt.year) + DaysBeforeMonth(dt.year, dt.month) + dt.day

\* date.weekday(): Monday is 0, Saturday 5, Sunday 6.
weekday(dt) == (toordinal(dt) + 6) % 7

NextDay(dt) ==
    IF dt.day < DaysInMonth(dt.year, dt.month)
    THEN MkDate(dt.year, dt.month, dt.day + 1)
    ELSE IF dt.month < 12 THEN MkDate(dt.year, dt.month + 1, 1)
    ELSE MkDate(dt.year + 1, 1, 1)

\* date + timedelta(days=n), n >= 0.
RECURSIVE timedelta(_, _)
timedelta(dt, n) == IF n = 0 THEN dt ELSE timedelta(NextDay(dt), n - 1)

\* date.replace(year=y): ValueError when the day does not exist in year y.
replace_year_clamp(dt, y) ==
    [exc |-> "",
     self |-> dt,
     ret |-> MkDate(y, dt.month,
                    IF dt.day > DaysInMonth(y, dt.month)
                    THEN DaysInMonth(y, dt.month) ELSE dt.day)]

replace_year(dt, y) ==
    IF ValidDate(y, dt.month, dt.day)
    THEN [exc |-> "", self |-> dt, ret |-> MkDate(y, dt.month, dt.day)]
    ELSE [exc |-> "day is out of range for month", self |-> dt, ret |-> dt]

\* strptime(value, '%d.%m.%Y').date()
strptime(txt) ==
    IF /\ txt.sep = "."
       /\ txt.f[1] \in 1..31
       /\ txt.f[2] \in 1..12
       /\ ValidDate(txt.f[3], txt.f[2], txt.f[1])
    THEN [exc |-> "", ret |-> MkDate(txt.f[3], txt.f[2], txt.f[1])]
    ELSE [exc |-> "does not match format", ret |-> MkDate(0, 0, 0)]

\* strftime('%d.%m.%Y')
strftime(dt) == [sep |-> ".", f |-> <<dt.day, dt.month, dt.year>>]

\* ---------------------------------------------------------------- fields

PhoneLen == 10

isdigit(s) == Len(s) > 0 /\ \A i \in 1..Len(s) : s[i] \in Digits

RECURSIVE lstrip(_)
lstrip(s) == IF s # <<>> /\ Head(s) = " " THEN lstrip(Tail(s)) ELSE s

RECURSIVE rstrip(_)
rstrip(s) ==
    IF s # <<>> /\ s[Len(s)] = " " THEN rstrip(SubSeq(s, 1, Len(s) - 1)) ELSE s

strip(s) == rstrip(lstrip(s))

\* Name.__init__
Name(value) ==
    IF strip(value) = <<>>
    THEN [exc |-> "Name cannot be empty or contain only spaces", ret |-> <<>>]
    ELSE [exc |-> "", ret |-> strip(value)]

\* Phone.__init__
Phone(value) ==
    IF ~isdigit(value) \/ Len(value) # PhoneLen
    THEN [exc |-> "Phone number must contain 10 digits.", ret |-> <<>>]
    ELSE [exc |-> "", ret |-> value]

NoBirthday == MkDate(0, 0, 0)

\* Birthday.__init__
Birthday(value) ==
    IF strptime(value).exc # ""
    THEN [exc |-> "Invalid date format. Use DD.MM.YYYY", ret |-> NoBirthday]
    ELSE [exc |-> "", ret |-> strptime(value).ret]

\* Birthday.date_to_string
date_to_string(bday) == strftime(bday)

\* ---------------------------------------------------------------- Record

None == [name |-> <<>>, phones |-> <<>>, birthday |-> NoBirthday]

\* Record.__init__
Record(name) ==
    IF Name(name).exc # ""
    THEN [exc |-> Name(name).exc, self |-> None, ret |-> "None"]
    ELSE [exc |-> "",
          self |-> [name |-> Name(name).ret, phones |-> <<>>,
                    birthday |-> NoBirthday],
          ret |-> "None"]

\* Record.find_phone: the position of the first phone with that value, 0
\* for None.
find_phone(self, phone_number) ==
    IF \E i \in 1..Len(self.phones) : self.phones[i] = phone_number
    THEN CHOOSE i \in 1..Len(self.phones) :
            /\ self.phones[i] = phone_number
            /\ \A j \in 1..(i - 1) : self.phones[j] # phone_number
    ELSE 0

RemoveAt(s, i) == SubSeq(s, 1, i - 1) \o SubSeq(s, i + 1, Len(s))

\* Record.add_phone
add_phone_append_first(self, phone_number) ==
    IF find_phone(self, phone_number) # 0
    THEN [exc |-> "Phone number already in use. Enter a new phone number.",
          self |-> self, ret |-> "None"]
    ELSE IF Phone(phone_number).exc # ""
    THEN [exc |-> Phone(phone_number).exc,
          self |-> [self EXCEPT !.phones = Append(@, phone_number)],
          ret |-> "None"]
    ELSE [exc |-> "",
          self |-> [self EXCEPT !.phones = Append(@, Phone(phone_number).ret)],
          ret |-> "None"]

add_phone(self, phone_number) ==
    IF find_phone(self, phone_number) # 0
    THEN [exc |-> "Phone number already in use. Enter a new phone number.",
          self |-> self, ret |-> "None"]
    ELSE IF Phone(phone_number).exc # ""
    THEN [exc |-> Phone(phone_number).exc, self |-> self, ret |-> "None"]
    ELSE [exc |-> "",
          self |-> [self EXCEPT !.phones = Append(@, Phone(phone_number).ret)],
          ret |-> "None"]

\* Record.remove_phone
remove_phone_last(self, phone_number) ==
    IF find_phone(self, phone_number) # 0
    THEN [exc |-> "",
          self |-> [self EXCEPT !.phones = RemoveAt(@, Len(@))],
          ret |-> "True"]
    ELSE [exc |-> "", self |-> self, ret |-> "False"]

remove_phone(self, phone_number) ==
    IF find_phone(self, phone_number) # 0
    THEN [exc |-> "",
          self |-> [self EXCEPT
                      !.phones = RemoveAt(@, find_phone(self, phone_number))],
          ret |-> "True"]
    ELSE [exc |-> "", self |-> self, ret |-> "False"]

\* Record.edit_phone
edit_phone_unchecked(self, current_number, new_number) ==
    IF find_phone(self, current_number) = 0
    THEN [exc |-> "Phone number not found.", self |-> self, ret |-> "None"]
    ELSE IF Phone(new_number).exc # ""
    THEN [exc |-> Phone(new_number).exc, self |-> self, ret |-> "None"]
    ELSE [exc |-> "",
          self |-> [self EXCEPT !.phones[find_phone(self, current_number)] =
                                    Phone(new_number).ret],
          ret |-> "True"]

edit_phone(self, current_number, new_number) ==
    IF find_phone(self, current_number) = 0
    THEN [exc |-> "Phone number not found.", self |-> self, ret |-> "None"]
    ELSE IF find_phone(self, new_number) # 0
    THEN [exc |-> "Phone number already in use. Enter a new phone number.",
          self |-> self, ret |-> "None"]
    ELSE IF Phone(new_number).exc # ""
    THEN [exc |-> Phone(new_number).exc, self |-> self, ret |-> "None"]
    ELSE [exc |-> "",
          self |-> [self EXCEPT !.phones[find_phone(self, current_number)] =
                                    Phone(new_number).ret],
          ret |-> "True"]

\* Record.add_birthday
Record_add_birthday(self, date_str) ==
    IF Birthday(date_str).exc # ""
    THEN [exc |-> Birthday(date_str).exc, self |-> self, ret |-> "None"]
    ELSE [exc |-> "",
          self |-> [self EXCEPT !.birthday = Birthday(date_str).ret],
          ret |-> "True"]

\* ------------------------------------------------------------- AddressBook
\* The dict self.data, in insertion order; an entry's key is its record's
\* name.

AddressBook == <<>>

KeyIndex(data, name) ==
    IF \E i \in 1..Len(data) : data[i].name = name
    THEN CHOOSE i \in 1..Len(data) :
            /\ data[i].name = name
            /\ \A j \in 1..(i - 1) : data[j].name # name
    ELSE 0

\* AddressBook.add_record: self.data[record.name.value] = record
add_record_append(data, record) == Append(data, record)

add_record(data, record) ==
    IF KeyIndex(data, record.name) = 0
    THEN Append(data, record)
    ELSE [data EXCEPT ![KeyIndex(data, record.name)] = record]

\* AddressBook.find: self.data.get(name)
find(data, name) ==
    IF KeyIndex(data, name) = 0 THEN None ELSE data[KeyIndex(data, name)]

\* The record find returned is the object the book holds: a change made
\* through it is a change of the book's entry.
Through(data, record) ==
    IF KeyIndex(data, record.name) = 0
    THEN data
    ELSE [data EXCEPT ![KeyIndex(data, record.name)] = record]

\* AddressBook.delete
delete(data, name) ==
    IF KeyIndex(data, name) # 0
    THEN [exc |-> "", self |-> RemoveAt(data, KeyIndex(data, name)),
          ret |-> "True"]
    ELSE [exc |-> "", self |-> data, ret |-> "False"]

\* The weekend shift of get_upcoming_birthdays.
congratulation_date_sat1(birthday_this_year) ==
    IF weekday(birthday_this_year) = 5 THEN timedelta(birthday_this_year, 1)
    ELSE IF weekday(birthday_this_year) = 6
    THEN timedelta(birthday_this_year, 1)
    ELSE birthday_this_year

congratulation_date(birthday_this_year) ==
    IF weekday(birthday_this_year) = 5 THEN timedelta(birthday_this_year, 2)
    ELSE IF weekday(birthday_this_year) = 6
    THEN timedelta(birthday_this_year, 1)
    ELSE birthday_this_year

\* One pass of the loop of get_upcoming_birthdays over a contact: the
\* exception it raised, and the entries it appends.
Contact(contact, today) ==
    LET first == replace_year(contact.birthday, today.year)
        second == replace_year(first.ret, today.year + 1)
        again == first.exc = "" /\ toordinal(first.ret) < toordinal(today)
        birthday_this_year == IF again THEN second.ret ELSE first.ret
        days_delta == toordinal(birthday_this_year) - toordinal(today)
    IN  IF contact.birthday = NoBirthday THEN [exc |-> "", ret |-> <<>>]
        ELSE IF first.exc # "" THEN [exc |-> first.exc, ret |-> <<>>]
        ELSE IF again /\ second.exc # "" THEN [exc |-> second.exc, ret |-> <<>>]
        ELSE IF 0 <= days_delta /\ days_delta <= 7
        THEN [exc |-> "",
              ret |-> <<[name |-> contact.name,
                         congratulation_date |->
                            strftime(congratulation_date(birthday_this_year))]>>]
        ELSE [exc |-> "", ret |-> <<>>]

RECURSIVE Loop(_, _, _, _)
Loop(data, i, today, upcoming_birthdays) ==
    IF i > Len(data)
    THEN [exc |-> "", self |-> data, ret |-> upcoming_birthdays]
    ELSE IF Contact(data[i], today).exc # ""
    THEN [exc |-> Contact(data[i], today).exc, self |-> data, ret |-> <<>>]
    ELSE Loop(data, i + 1, today,
              upcoming_birthdays \o Contact(data[i], today).ret)

\* AddressBook.get_upcoming_birthdays, with datetime.today().date() = today
get_upcoming_birthdays(data, today) == Loop(data, 1, today, <<>>)

\* ------------------------------------------------------------- persistence
\* The pickle file: whether it exists, and one item per entry of the book,
\* <<key, phone values, <<year, month, day>> or <<>> >>.

NoFile == [exists |-> FALSE, items |-> <<>>]

Dump(record) ==
    <<record.name, record.phones,
      IF record.birthday = NoBirthday THEN <<>>
      ELSE <<record.birthday.year, record.birthday.month, record.birthday.day>> >>

Undump(item) ==
    [name |-> item[1], phones |-> item[2],
     birthday |-> IF item[3] = <<>> THEN NoBirthday
                  ELSE MkDate(item[3][1], item[3][2], item[3][3])]

\* save_data: pickle.dump(book, f)
save_data(data) ==
    [exists |-> TRUE, items |-> [i \in 1..Len(data) |-> Dump(data[i])]]

\* load_data: pickle.load(f), or AddressBook() on FileNotFoundError
load_data(file) ==
    IF file.exists
    THEN [i \in 1..Len(file.items) |-> Undump(file.items[i])]
    ELSE AddressBook

\* ---------------------------------------------------------------- commands
\* A command returns [self, error, text]: the book afterwards, whether
\* input_error turned an exception into the answer, and the answer.

input_error(r) ==
    IF r.exc # ""
    THEN [self |-> r.self, error |-> TRUE, text |-> r.exc]
    ELSE [self |-> r.self, error |-> FALSE, text |-> r.ret]

add_contact_body(args, data) ==
    IF Len(args) < 2
    THEN [exc |-> "Enter contact name and phone number with 10 digits",
          self |-> data, ret |-> ""]
    ELSE
      LET name == args[1]
          phone == args[2]
          validated_record == Phone(phone)
          created_record == find(data, name) = None
          made == Record(name)
          record == IF created_record THEN made.self ELSE find(data, name)
          data1 == IF created_record THEN add_record(data, record) ELSE data
          added == add_phone(record, validated_record.ret)
      IN  IF validated_record.exc # ""
          THEN [exc |-> validated_record.exc, self |-> data, ret |-> ""]
          ELSE IF created_record /\ made.exc # ""
          THEN [exc |-> made.exc, self |-> data, ret |-> ""]
          ELSE IF added.exc # ""
          THEN [exc |-> added.exc, self |-> Through(data1, added.self),
                ret |-> ""]
          ELSE [exc |-> "", self |-> Through(data1, added.self),
                ret |-> IF created_record THEN "Contact added."
                        ELSE "Contact updated."]

add_contact(args, data) == input_error(add_contact_body(args, data))

change_contact_body(args, data) ==
    IF Len(args) < 3
    THEN [exc |-> "Enter contact name, old phone number and new phone number with 10 digits",
          self |-> data, ret |-> ""]
    ELSE
      LET name == args[1]
          old_phone == args[2]
          new_phone == args[3]
          record == find(data, name)
          edited == edit_phone(record, old_phone, new_phone)
      IN  IF record = None
          THEN [exc |-> "Contact does not exist. Try again.", self |-> data,
                ret |-> ""]
          ELSE IF edited.exc # ""
          THEN [exc |-> edited.exc, self |-> Through(data, edited.self),
                ret |-> ""]
          ELSE [exc |-> "", self |-> Through(data, edited.self),
                ret |-> "Phone updated."]

change_contact(args, data) == input_error(change_contact_body(args, data))

add_birthday_body(args, data) ==
    IF Len(args) < 2
    THEN [exc |-> "Enter contact name and birthday DD.MM.YYYY", self |-> data,
          ret |-> ""]
    ELSE
      LET name == args[1]
          date_str == args[2]
          missing == find(data, name) = None
          made == Record(name)
          record == IF missing THEN made.self ELSE find(data, name)
          data1 == IF missing THEN add_record(data, record) ELSE data
          set == Record_add_birthday(record, date_str)
      IN  IF missing /\ made.exc # ""
          THEN [exc |-> made.exc, self |-> data, ret |-> ""]
          ELSE IF set.exc # ""
          THEN [exc |-> set.exc, self |-> Through(data1, set.self), ret |-> ""]
          ELSE [exc |-> "", self |-> Through(data1, set.self),
                ret |-> "Birthday added."]

add_birthday(args, data) == input_error(add_birthday_body(args, data))

\* grouped.setdefault(date, []).append(item["name"]), over the items in order
RECURSIVE Grouped(_, _, _)
Grouped(upcoming, i, grouped) ==
    IF i > Len(upcoming) THEN grouped
    ELSE
      LET date == upcoming[i].congratulation_date
          at == IF \E k \in 1..Len(grouped) : grouped[k].date = date
                THEN CHOOSE k \in 1..Len(grouped) : grouped[k].date = date
                ELSE 0
      IN  Grouped(upcoming, i + 1,
                  IF at = 0
                  THEN Append(grouped,
                              [date |-> date, names |-> <<upcoming[i].name>>])
                  ELSE [grouped EXCEPT ![at].names = Append(@, upcoming[i].name)])

birthdays_body(data, today) ==
    LET upcoming == get_upcoming_birthdays(data, today)
    IN  IF upcoming.exc # ""
        THEN [exc |-> upcoming.exc, self |-> upcoming.self, ret |-> <<>>]
        ELSE IF upcoming.ret = <<>>
        THEN [exc |-> "", self |-> upcoming.self,
              ret |-> "No upcoming birthdays within the next 7 days."]
        ELSE [exc |-> "", self |-> upcoming.self,
              ret |-> Grouped(upcoming.ret, 1, <<>>)]

birthdays(data, today) == input_error(birthdays_body(data, today))

\* ------------------------------------------------------------------ inputs

ApiNames == {NameA, NameB}
RawNames == {NameA, NameB, NamePadded, NameBlank}
ValidPhones == {P1, P2, P3}
ApiPhones == ValidPhones \cup {PShort, PAlpha}
NewPhones == {<<>>, <<P1>>, <<P2, P1>>, <<P3>>}
ApiDates == {TxtMay22, TxtFeb31, TxtIso}

QueryNames == {NameA, NameB, <<"c">>}
QueryDates == {TxtLeapDay, TxtNewYear, TxtMay25, TxtMay22, TxtMarch3}
TodayBases ==
    {MkDate(2024, 2, 22), MkDate(2024, 5, 18), MkDate(2024, 12, 25),
     MkDate(2025, 2, 24)}
Todays == {timedelta(b, k) : b \in TodayBases, k \in 0..TodaySpan}

CmdNames == {NameA, NameB}
CmdPhones == {P1, P2, PAlpha}
CmdDates == {TxtMay22, TxtFeb31}
CmdTodays == {MkDate(2024, 5, 20), MkDate(2025, 2, 27)}

AddArgs ==
    {<<>>, <<NameA>>} \cup {<<n, p>> : n \in CmdNames, p \in CmdPhones}

ChangeArgs ==
    {<<NameA, P1>>}
    \cup {<<n, p, q>> : n \in CmdNames, p \in CmdPhones, q \in CmdPhones}

AddBirthdayArgs ==
    {<<NameA>>} \cup {<<n, d>> : n \in CmdNames, d \in CmdDates}

\* ----------------------------------------------------------------- history
\* last is the latest operation; ret is its value, or the message of the
\* exception it raised.  load records how the session before it ended.  A specification that applies one
\* operation to a book (pc "call" or "query", then "done") records its
\* arguments, its outcome and the book before it; one that runs operations
\* in sequence records the operation and whether it failed, and at the end
\* of a session the book the session held.

NoDate == MkDate(0, 0, 0)

OneShot == pc \in {"call", "query"}

Did(op, args, error, ret, today) ==
    IF OneShot
    THEN [op |-> op, args |-> args, error |-> error, ret |-> ret,
          pre |-> book, today |-> today]
    ELSE [op |-> op, args |-> <<>>, error |-> error, ret |-> "",
          pre |-> AddressBook, today |-> NoDate]

After == IF OneShot THEN "done" ELSE pc

Started ==
    [op |-> "init", args |-> <<>>, error |-> FALSE, ret |-> "",
     pre |-> AddressBook, today |-> NoDate]

Bounded(data) ==
    /\ Len(data) <= MaxContacts
    /\ \A i \in 1..Len(data) : Len(data[i].phones) <= MaxPhones

\* ------------------------------------------- the classes, called directly

Init ==
    /\ book = AddressBook
    /\ disk = NoFile
    /\ pc = "api"
    /\ last = Started

RECURSIVE Build(_, _)
Build(record, phones) ==
    IF phones = <<>> THEN record
    ELSE Build(add_phone(record, Head(phones)).self, Tail(phones))

\* r = Record(name); r.add_phone(p) for each p; book.add_record(r)
NewRecord(name, phones) ==
    LET made == Record(name)
        r == Build(made.self, phones)
    IN  /\ pc \in {"api", "call"}
        /\ IF made.exc # ""
           THEN /\ book' = book
                /\ last' = Did("Record", <<name>>, TRUE, made.exc, NoDate)
           ELSE /\ book' = add_record(book, r)
                /\ last' = Did("add_record", <<r>>, FALSE, "None", NoDate)
        /\ Bounded(book')
        /\ pc' = After
        /\ UNCHANGED disk

\* A method of the record book.find(name) returned r.
Method(op, args, name, r) ==
    /\ pc \in {"api", "call"}
    /\ find(book, name) # None
    /\ book' = Through(book, r.self)
    /\ Bounded(book')
    /\ last' = Did(op, args, r.exc # "", IF r.exc # "" THEN r.exc ELSE r.ret,
                   NoDate)
    /\ pc' = After
    /\ UNCHANGED disk

\* book.find(name).add_phone(phone_number)
AddPhone(name, phone_number) ==
    Method("add_phone", <<name, phone_number>>, name,
           add_phone(find(book, name), phone_number))

\* book.find(name).remove_phone(phone_number)
RemovePhone(name, phone_number) ==
    Method("remove_phone", <<name, phone_number>>, name,
           remove_phone(find(book, name), phone_number))

\* book.find(name).edit_phone(current_number, new_number)
EditPhone(name, current_number, new_number) ==
    Method("edit_phone", <<name, current_number, new_number>>, name,
           edit_phone(find(book, name), current_number, new_number))

\* book.find(name).add_birthday(date_str)
SetBirthday(name, date_str) ==
    Method("add_birthday", <<name, date_str>>, name,
           Record_add_birthday(find(book, name), date_str))

\* book.delete(name)
Delete(name) ==
    LET r == delete(book, name)
    IN  /\ pc \in {"api", "call"}
        /\ book' = r.self
        /\ last' = Did("delete", <<name>>, FALSE, r.ret, NoDate)
        /\ pc' = After
        /\ UNCHANGED disk

Next ==
    \/ \E name \in RawNames, phones \in NewPhones : NewRecord(name, phones)
    \/ \E name \in ApiNames, p \in ApiPhones : AddPhone(name, p)
    \/ \E name \in ApiNames, p \in ApiPhones : RemovePhone(name, p)
    \/ \E name \in ApiNames, p \in ApiPhones, q \in ApiPhones :
          EditPhone(name, p, q)
    \/ \E name \in ApiNames, d \in ApiDates : SetBirthday(name, d)
    \/ \E name \in ApiNames : Delete(name)

Spec == Init /\ [][Next]_vars

\* ---------------------------------------------------------------- commands

Command(op, args, r, today) ==
    /\ pc \in {"call", "query", "running"}
    /\ book' = r.self
    /\ Bounded(book')
    /\ last' = Did(op, args, r.error, r.text, today)
    /\ pc' = After
    /\ UNCHANGED disk

CmdAdd(args) == Command("add", args, add_contact(args, book), NoDate)

CmdChange(args) == Command("change", args, change_contact(args, book), NoDate)

CmdAddBirthday(args) ==
    Command("add-birthday", args, add_birthday(args, book), NoDate)

CmdBirthdays(today) ==
    Command("birthdays", <<>>, birthdays(book, today), today)

\* ------------------------------------- one operation on a book, one answer
\* The books are those the classes build: records made by Record, add_phone
\* and add_birthday, entered under their names.

PhoneLists ==
    {s \in UNION {[1..k -> ValidPhones] : k \in 0..MaxPhones} :
        \A i, j \in 1..Len(s) : i # j => s[i] # s[j]}

Records(names, phones, dates) ==
    {Build(Record(n).self, s) : n \in names, s \in phones}
    \cup {Record_add_birthday(Build(Record(n).self, s), d).self :
            n \in names, s \in phones, d \in dates}

Books(records) ==
    {b \in UNION {[1..k -> records] : k \in 0..MaxContacts} :
        \A i, j \in 1..Len(b) : i # j => b[i].name # b[j].name}

CallBooks == Books(Records(ApiNames, PhoneLists, {TxtMay22}))

InitCall ==
    /\ book \in CallBooks
    /\ disk = NoFile
    /\ pc = "call"
    /\ last = Started

NextCall ==
    \/ Next
    \/ \E args \in AddArgs : CmdAdd(args)
    \/ \E args \in ChangeArgs : CmdChange(args)
    \/ \E args \in AddBirthdayArgs : CmdAddBirthday(args)

SpecCall == InitCall /\ [][NextCall]_vars

\* ------------------------------------------------ the birthday query alone

QueryBooks == Books(Records(QueryNames, {<<>>}, QueryDates))

InitQuery ==
    /\ book \in QueryBooks
    /\ disk = NoFile
    /\ pc = "query"
    /\ last = Started

\* book.get_upcoming_birthdays() on the day today
Query(today) ==
    LET r == get_upcoming_birthdays(book, today)
    IN  /\ pc = "query"
        /\ book' = r.self
        /\ last' = Did("get_upcoming_birthdays", <<>>, r.exc # "",
                       IF r.exc # "" THEN r.exc ELSE r.ret, today)
        /\ pc' = After
        /\ UNCHANGED disk

NextQuery ==
    \/ \E today \in Todays : Query(today)
    \/ \E today \in Todays : CmdBirthdays(today)

SpecQuery == InitQuery /\ [][NextQuery]_vars

\* ------------------------------------------------------------------- main

InitMain ==
    /\ book = AddressBook
    /\ disk = NoFile
    /\ pc = "stopped"
    /\ last = Started

\* book = load_data(DB_FILENAME)
Load ==
    /\ pc = "stopped"
    /\ book' = load_data(disk)
    /\ pc' = "running"
    /\ last' = [Started EXCEPT !.op = "load", !.args = <<last.op>>]
    /\ UNCHANGED disk

\* finally: save_data(book); the process ends and its book with it.
Finally(op) ==
    /\ pc = "running"
    /\ disk' = save_data(book)
    /\ pc' = "stopped"
    /\ book' = AddressBook
    /\ last' = [Started EXCEPT !.op = op, !.pre = book]

\* close / exit: break
CmdExit == Finally("exit")

\* except KeyboardInterrupt, then finally
KeyboardInterrupt_unsaved ==
    /\ pc = "running"
    /\ pc' = "stopped"
    /\ book' = AddressBook
    /\ last' = [Started EXCEPT !.op = "KeyboardInterrupt", !.pre = book]
    /\ UNCHANGED disk

KeyboardInterrupt == Finally("KeyboardInterrupt")

NextMain ==
    \/ Load
    \/ \E args \in AddArgs : CmdAdd(args)
    \/ \E args \in ChangeArgs : CmdChange(args)
    \/ \E args \in AddBirthdayArgs : CmdAddBirthday(args)
    \/ \E today \in CmdTodays : CmdBirthdays(today)
    \/ CmdExit
    \/ KeyboardInterrupt

SpecMain == InitMain /\ [][NextMain]_vars

\* ------------------------------------------------------------ properties

TenDigits == [1..10 -> Digits]

Called(op) == pc = "done" /\ last.op = op

On(record, number) == \E i \in 1..Len(record.phones) : record.phones[i] = number

Entries(data, name) == {data[i] : i \in {k \in 1..Len(data) : data[k].name = name}}

OthersKept(name) ==
    \A n \in ApiNames \cup CmdNames :
        n # name => Entries(book, n) = Entries(last.pre, n)

\* C1: a mutating command (add, change, add-birthday) that answers with an
\* error leaves the book as it was before the command.
C1_RejectedCommandKeepsBook ==
    (pc = "done" /\ last.op \in {"add", "change", "add-birthday"} /\ last.error)
        => book = last.pre

\* C2: add_phone with a number on the record or a malformed one, edit_phone
\* with an absent old number, a new number on the record or a malformed new
\* number, and add_birthday with an invalid date each raise; and whenever
\* one of the three raises, phones and birthday are as before the call.
C2_FailingRecordCallsAtomic ==
    /\ Called("add_phone") =>
          LET record == find(last.pre, last.args[1])
          IN  (On(record, last.args[2]) \/ last.args[2] \notin TenDigits)
                  => last.error
    /\ Called("edit_phone") =>
          LET record == find(last.pre, last.args[1])
          IN  (\/ ~On(record, last.args[2])
               \/ On(record, last.args[3])
               \/ last.args[3] \notin TenDigits) => last.error
    /\ Called("add_birthday") =>
          (last.args[2] \in {TxtFeb31, TxtIso} => last.error)
    /\ (pc = "done" /\ last.op \in {"add_phone", "edit_phone", "add_birthday"}
            /\ last.error) => book = last.pre

C2_SamePhoneTwice ==
    /\ Called("add_phone")
    /\ last.error
    /\ On(find(last.pre, last.args[1]), last.args[2])
    /\ Len(find(book, last.args[1]).phones) = 1

\* C3: edit_phone(old, new) with old on the record and new ten digits fails
\* with the duplicate-phone error exactly when new is the value of an entry
\* other than the one old matched, and otherwise succeeds, replacing the
\* matched entry's value in place.
C3_EditFailsOnlyOnOtherEntry ==
    Called("edit_phone") =>
        LET record == find(last.pre, last.args[1])
            old == last.args[2]
            new == last.args[3]
            k == CHOOSE i \in 1..Len(record.phones) : record.phones[i] = old
            elsewhere == \E i \in 1..Len(record.phones) :
                            i # k /\ record.phones[i] = new
        IN  (On(record, old) /\ new \in TenDigits) =>
               IF elsewhere
               THEN /\ last.error
                    /\ last.ret =
                         "Phone number already in use. Enter a new phone number."
                    /\ book = last.pre
               ELSE /\ ~last.error
                    /\ Entries(book, last.args[1]) =
                         {[record EXCEPT !.phones[k] = new]}
                    /\ OthersKept(last.args[1])

\* C4: no two entries of a record's phone list hold the same digit string.
C4_PhonesUnique ==
    \A r \in 1..Len(book) :
        \A i, j \in 1..Len(book[r].phones) :
            i # j => book[r].phones[i] # book[r].phones[j]

C4_EditedBesideAnother ==
    /\ last.op = "edit_phone"
    /\ ~last.error
    /\ \E r \in 1..Len(book) : Len(book[r].phones) = 2

\* The entries a query reported: none when it raised.
Reported == IF last.error THEN <<>> ELSE last.ret

ReportedFor(name) == {e \in 1..Len(Reported) : Reported[e].name = name}

\* The birthday's day and month fall on today or one of the 7 days after.
InWindow(birthday, today) ==
    \E k \in 0..7 :
        /\ timedelta(today, k).month = birthday.month
        /\ timedelta(today, k).day = birthday.day

Occurrence(birthday, today) ==
    timedelta(today, CHOOSE k \in 0..7 :
                        /\ timedelta(today, k).month = birthday.month
                        /\ timedelta(today, k).day = birthday.day)

\* C5: get_upcoming_birthdays reports exactly one entry for a record that
\* has a birthday whose next occurrence is 0 to 7 days after today, and no
\* entry for any other record.
C5_ReportsExactlyTheWindow ==
    Called("get_upcoming_birthdays") =>
        \A i \in 1..Len(last.pre) :
            Cardinality(ReportedFor(last.pre[i].name)) =
                IF /\ last.pre[i].birthday # NoBirthday
                   /\ InWindow(last.pre[i].birthday, last.today)
                THEN 1 ELSE 0

\* C6: a reported congratulation date is the birthday's occurrence in the
\* window, moved 2 days on from a Saturday and 1 day on from a Sunday; it is
\* no Saturday or Sunday and lies between today and today + 9 days.
C6_CongratulationDateShifted ==
    Called("get_upcoming_birthdays") =>
        \A e \in 1..Len(Reported) :
            \E i \in 1..Len(last.pre) :
                LET birthday == last.pre[i].birthday
                    this_year == Occurrence(birthday, last.today)
                    moved == timedelta(this_year,
                                CASE weekday(this_year) = 5 -> 2
                                  [] weekday(this_year) = 6 -> 1
                                  [] OTHER -> 0)
                IN  /\ last.pre[i].name = Reported[e].name
                    /\ birthday # NoBirthday
                    /\ InWindow(birthday, last.today)
                    /\ Reported[e].congratulation_date = strftime(moved)
                    /\ weekday(moved) \in 0..4
                    /\ toordinal(moved) - toordinal(last.today) \in 0..9

\* Saturday 25.05.2024, seven days after today, is congratulated on Monday
\* 27.05.2024, nine days after today.
C6_SaturdaySevenDaysAhead ==
    /\ Called("get_upcoming_birthdays")
    /\ last.today = MkDate(2024, 5, 18)
    /\ \E e \in 1..Len(Reported) :
          Reported[e].congratulation_date = DateText(27, 5, 2024)

\* The year a birthday is recomputed into.
TargetYear(today) ==
    IF IsLeap(today.year) /\ today.month > 2 THEN today.year + 1
    ELSE today.year

LeapDayFails(data, today) ==
    /\ ~IsLeap(TargetYear(today))
    /\ \E i \in 1..Len(data) :
          data[i].birthday.month = 2 /\ data[i].birthday.day = 29

\* C10: with a 29 February birthday in the book and a target year that is
\* no leap year, get_upcoming_birthdays raises, the birthdays command
\* answers with an error, and the book is unchanged.
C10_LeapDayFailsWholeQuery ==
    (pc = "done" /\ last.op \in {"get_upcoming_birthdays", "birthdays"}
        /\ LeapDayFails(last.pre, last.today))
        => last.error /\ book = last.pre

C10_OtherBirthdayInWindowLost ==
    /\ Called("birthdays")
    /\ LeapDayFails(last.pre, last.today)
    /\ last.error
    /\ \E i \in 1..Len(last.pre) :
          /\ last.pre[i].birthday # NoBirthday
          /\ last.pre[i].birthday.day # 29
          /\ InWindow(last.pre[i].birthday, last.today)

\* C7: a session starts with the book the previous session held when it
\* ended (an empty book before the first one), and every end of a session
\* saves the book it holds.
C7_NextSessionResumes ==
    [][/\ (pc = "stopped" /\ pc' = "running") => book' = last.pre
       /\ (pc = "running" /\ pc' = "stopped") => load_data(disk') = book]_vars

C7_ResumedAfterInterrupt ==
    /\ last.op = "load"
    /\ last.args = <<"KeyboardInterrupt">>
    /\ \E i \in 1..Len(book) :
          Len(book[i].phones) = 2 /\ book[i].birthday # NoBirthday

\* C8: after add_record(r), find(r.name) is r, r is the only entry under its
\* name, an entry that was under that name is replaced with the number of
\* entries unchanged, and the entries under other names are as before.
C8_AddRecordUpserts ==
    Called("add_record") =>
        LET r == last.args[1]
        IN  /\ find(book, r.name) = r
            /\ Entries(book, r.name) = {r}
            /\ Cardinality({i \in 1..Len(book) : book[i].name = r.name}) = 1
            /\ Entries(last.pre, r.name) # {} => Len(book) = Len(last.pre)
            /\ OthersKept(r.name)

C8_ReplacedRecordWithData ==
    /\ Called("add_record")
    /\ Len(last.pre) = 2
    /\ \E old \in Entries(last.pre, last.args[1].name) :
          /\ Len(old.phones) = 2
          /\ old.birthday # NoBirthday
          /\ last.args[1].phones = <<P3>>

ReachableBooksCovered == pc = "api" => book \in CallBooks

====
